---- MODULE Spec2Model ----
(***************************************************************************)
(* A model of the rustchat ThreadPool (src/src/lib.rs): one owner thread   *)
(* that constructs the pool, submits jobs and drops the pool, and the      *)
(* worker threads that share one mpsc receiver behind an Arc<Mutex<..>>.   *)
(***************************************************************************)
EXTENDS Naturals, Integers, Sequences, FiniteSets, TLC

\* Largest `size` argument tried for ThreadPool::new (0 is tried as well).
MaxSize == 2
\* Largest number of calls to execute in one run.
MaxJobs == 3

VARIABLES
    pc,          \* position of the owner thread (new / active / drop)
    size,        \* the argument of ThreadPool::new
    chan,        \* TRUE once mpsc::channel() has been called
    sender,      \* Option<Sender<Job>>: "Some" | "None"
    queue,       \* the channel's buffer: jobs sent and not yet received
    rxRefs,      \* holders of an Arc clone of the Mutex<Receiver>
    rxDropped,   \* TRUE once the last Arc clone is gone (Receiver dropped)
    lockHolders, \* threads holding a MutexGuard of the receiver mutex
    poisoned,    \* the mutex's poison flag
    workers,     \* ThreadPool.workers: Vec<Worker>
    joinIdx,     \* position of the `for worker in &mut self.workers` loop
    wpc,         \* position of each worker thread
    message,     \* each worker thread's local `message`
    submitted,   \* number of calls to execute so far
    dequeued,    \* job ids in the order recv() handed them out
    completed,   \* job ids in the order their side effect was recorded
    failedJobs,  \* ids of the jobs that panicked
    calls,       \* history: the jobs passed to execute, in call order
    closeSnap,   \* history: were jobs queued and in flight when the Sender went
    discarded    \* ids of the jobs dropped, unrun, with the Receiver

vars == <<pc, size, chan, sender, queue, rxRefs, rxDropped, lockHolders,
          poisoned, workers, joinIdx, wpc, message, submitted, dequeued,
          completed, failedJobs, calls, closeSnap, discarded>>

WorkerIds == 0 .. (MaxSize - 1)

\* The local `receiver` of ThreadPool::new, as a holder of an Arc clone.
NewLocal == -1

NoMessage == [tag |-> "None", id |-> 0, fails |-> FALSE]
ErrMessage == [tag |-> "Err", id |-> 0, fails |-> FALSE]
OkMessage(job) == [tag |-> "Ok", id |-> job.id, fails |-> job.fails]

\* type Job = Box<dyn FnOnce() + Send + 'static>: an opaque callable; what
\* the model keeps of it is its submission number and whether it panics.
Job(n, f) == [id |-> n, fails |-> f]

\* struct Worker { id, thread: Option<JoinHandle<()>> }
Worker(i) == [id |-> i, thread |-> "Some"]

Init ==
    /\ pc = "start"
    /\ size = 0
    /\ chan = FALSE
    /\ sender = "None"
    /\ queue = <<>>
    /\ rxRefs = {}
    /\ rxDropped = FALSE
    /\ lockHolders = {}
    /\ poisoned = FALSE
    /\ workers = <<>>
    /\ joinIdx = 0
    /\ wpc = [w \in WorkerIds |-> "unspawned"]
    /\ message = [w \in WorkerIds |-> NoMessage]
    /\ submitted = 0
    /\ dequeued = <<>>
    /\ completed = <<>>
    /\ failedJobs = {}
    /\ calls = <<>>
    /\ closeSnap = FALSE
    /\ discarded = {}

\* mpsc: the channel is disconnected for receivers when every Sender is gone.
\* The pool's `sender` field is the only Sender there ever is.
SendersGone == sender = "None"

\* Dropping one Arc<Mutex<Receiver>> clone held by `h`. When the last clone
\* goes, the Receiver is dropped and the messages still buffered with it.
ArcDrop(h, q) ==
    /\ rxRefs' = rxRefs \ {h}
    /\ IF rxRefs \ {h} = {} /\ rxRefs # {}
          THEN /\ rxDropped' = TRUE
               /\ queue' = <<>>
               /\ discarded' = discarded \cup {q[i].id : i \in 1 .. Len(q)}
          ELSE /\ rxDropped' = rxDropped
               /\ queue' = q
               /\ discarded' = discarded

-----------------------------------------------------------------------------
\* ThreadPool::new

\* assert!(size > 0), with the plausible slip of a missing assertion.
NewAssert_NoCheck(s) ==
    /\ pc = "start"
    /\ size' = s
    /\ pc' = "new_channel"
    /\ UNCHANGED <<chan, sender, queue, rxRefs, rxDropped, lockHolders,
                   poisoned, workers, joinIdx, wpc, message, submitted,
                   dequeued, completed, failedJobs, calls, closeSnap,
                   discarded>>

NewAssert(s) ==
    /\ pc = "start"
    /\ size' = s
    /\ pc' = IF s > 0 THEN "new_channel" ELSE "new_panicked"
    /\ UNCHANGED <<chan, sender, queue, rxRefs, rxDropped, lockHolders,
                   poisoned, workers, joinIdx, wpc, message, submitted,
                   dequeued, completed, failedJobs, calls, closeSnap,
                   discarded>>

\* let (sender, receiver) = mpsc::channel();
\* let receiver = Arc::new(Mutex::new(receiver));
\* let mut workers = Vec::with_capacity(size);
NewChannel ==
    /\ pc = "new_channel"
    /\ chan' = TRUE
    /\ sender' = "Some"
    /\ rxRefs' = {NewLocal}
    /\ workers' = <<>>
    /\ pc' = "new_spawn"
    /\ UNCHANGED <<size, queue, rxDropped, lockHolders, poisoned, joinIdx,
                   wpc, message, submitted, dequeued, completed, failedJobs,
                   calls, closeSnap, discarded>>

\* One iteration of `for id in 0..size`, stopping one worker short.
NewSpawn_OneShort ==
    /\ pc = "new_spawn"
    /\ IF Len(workers) + 1 < size
          THEN /\ workers' = Append(workers, Worker(Len(workers)))
               /\ rxRefs' = rxRefs \cup {Len(workers)}
               /\ wpc' = [wpc EXCEPT ![Len(workers)] = "lock"]
               /\ UNCHANGED <<pc, rxDropped, queue, discarded>>
          ELSE /\ pc' = "active"
               /\ ArcDrop(NewLocal, queue)
               /\ UNCHANGED <<workers, wpc>>
    /\ UNCHANGED <<size, chan, sender, lockHolders, poisoned, joinIdx,
                   message, submitted, dequeued, completed, failedJobs,
                   calls, closeSnap>>

\* One iteration of `for id in 0..size`:
\* workers.push(Worker::new(id, Arc::clone(&receiver))), where Worker::new
\* spawns the thread, which starts at the top of its loop; after the last
\* iteration the struct is returned and the local `receiver` is dropped.
NewSpawn ==
    /\ pc = "new_spawn"
    /\ IF Len(workers) < size
          THEN /\ workers' = Append(workers, Worker(Len(workers)))
               /\ rxRefs' = rxRefs \cup {Len(workers)}
               /\ wpc' = [wpc EXCEPT ![Len(workers)] = "lock"]
               /\ UNCHANGED <<pc, rxDropped, queue, discarded>>
          ELSE /\ pc' = "active"
               /\ ArcDrop(NewLocal, queue)
               /\ UNCHANGED <<workers, wpc>>
    /\ UNCHANGED <<size, chan, sender, lockHolders, poisoned, joinIdx,
                   message, submitted, dequeued, completed, failedJobs,
                   calls, closeSnap>>

-----------------------------------------------------------------------------
\* ThreadPool::execute

\* A send that buffers the job twice.
Execute_SendTwice(f) ==
    /\ pc = "active"
    /\ submitted < MaxJobs
    /\ submitted' = submitted + 1
    /\ calls' = Append(calls, Job(submitted + 1, f))
    /\ queue' = queue \o <<Job(submitted + 1, f), Job(submitted + 1, f)>>
    /\ pc' = pc
    /\ UNCHANGED <<size, chan, sender, rxRefs, rxDropped, lockHolders,
                   poisoned, workers, joinIdx, wpc, message, dequeued,
                   completed, failedJobs, closeSnap, discarded>>

\* self.sender.as_ref().unwrap().send(job).unwrap()
\* Sender::send appends to the unbounded buffer and never blocks; it returns
\* Err when the Receiver has been dropped, and the unwrap then panics.
Execute(f) ==
    /\ pc = "active"
    /\ submitted < MaxJobs
    /\ submitted' = submitted + 1
    /\ calls' = Append(calls, Job(submitted + 1, f))
    /\ IF sender = "Some" /\ ~rxDropped
          THEN /\ queue' = Append(queue, Job(submitted + 1, f))
               /\ pc' = pc
          ELSE /\ queue' = queue
               /\ pc' = "execute_panicked"
    /\ UNCHANGED <<size, chan, sender, rxRefs, rxDropped, lockHolders,
                   poisoned, workers, joinIdx, wpc, message, dequeued,
                   completed, failedJobs, closeSnap, discarded>>

-----------------------------------------------------------------------------
\* impl Drop for ThreadPool

\* A drop that goes on to the joins with the Sender still in place.
DropSender_Keep ==
    /\ pc = "active"
    /\ joinIdx' = 0
    /\ pc' = "drop_loop"
    /\ closeSnap' = (queue # <<>> /\ \E w \in WorkerIds : message[w].tag = "Ok")
    /\ UNCHANGED <<size, chan, sender, queue, rxRefs, rxDropped, lockHolders,
                   poisoned, workers, wpc, message, submitted, dequeued,
                   completed, failedJobs, calls, discarded>>

\* drop(self.sender.take()): the only Sender goes, the channel disconnects.
DropSender ==
    /\ pc = "active"
    /\ sender' = "None"
    /\ joinIdx' = 0
    /\ pc' = "drop_loop"
    /\ closeSnap' = (queue # <<>> /\ \E w \in WorkerIds : message[w].tag = "Ok")
    /\ UNCHANGED <<size, chan, queue, rxRefs, rxDropped, lockHolders,
                   poisoned, workers, wpc, message, submitted, dequeued,
                   completed, failedJobs, calls, discarded>>

\* The head of `for worker in &mut self.workers` and worker.thread.take():
\* a present handle is taken and joined next, an empty one is skipped; past
\* the last worker drop returns.
DropTake ==
    /\ pc = "drop_loop"
    /\ IF joinIdx < Len(workers)
          THEN IF workers[joinIdx + 1].thread = "Some"
                  THEN /\ workers' = [workers EXCEPT ![joinIdx + 1].thread = "None"]
                       /\ pc' = "drop_join"
                       /\ joinIdx' = joinIdx
                  ELSE /\ joinIdx' = joinIdx + 1
                       /\ UNCHANGED <<workers, pc>>
          ELSE /\ pc' = "done"
               /\ UNCHANGED <<workers, joinIdx>>
    /\ UNCHANGED <<size, chan, sender, queue, rxRefs, rxDropped, lockHolders,
                   poisoned, wpc, message, submitted, dequeued, completed,
                   failedJobs, calls, closeSnap, discarded>>

\* thread.join() that returns without waiting for the thread to end.
DropJoin_NoWait ==
    /\ pc = "drop_join"
    /\ pc' = "drop_loop"
    /\ joinIdx' = joinIdx + 1
    /\ UNCHANGED <<size, chan, sender, queue, rxRefs, rxDropped, lockHolders,
                   poisoned, workers, wpc, message, submitted, dequeued,
                   completed, failedJobs, calls, closeSnap, discarded>>

\* thread.join().unwrap(): blocks until the worker's thread has ended; join
\* returns Err for a thread that panicked, and the unwrap then panics.
DropJoin ==
    /\ pc = "drop_join"
    /\ wpc[workers[joinIdx + 1].id] \in {"terminated", "panicked"}
    /\ IF wpc[workers[joinIdx + 1].id] = "terminated"
          THEN pc' = "drop_loop" /\ joinIdx' = joinIdx + 1
          ELSE pc' = "drop_panicked" /\ joinIdx' = joinIdx
    /\ UNCHANGED <<size, chan, sender, queue, rxRefs, rxDropped, lockHolders,
                   poisoned, workers, wpc, message, submitted, dequeued,
                   completed, failedJobs, calls, closeSnap, discarded>>

-----------------------------------------------------------------------------
\* The closure of Worker::new: loop { let message = ...; match message ... }

\* receiver.lock() on a mutex without mutual exclusion.
Lock_NoExclusion(w) ==
    /\ wpc[w] = "lock"
    /\ lockHolders' = lockHolders \cup {w}
    /\ wpc' = [wpc EXCEPT ![w] = "recv"]
    /\ UNCHANGED <<pc, size, chan, sender, queue, rxRefs, rxDropped,
                   poisoned, workers, joinIdx, message, submitted, dequeued,
                   completed, failedJobs, calls, closeSnap, discarded>>

\* receiver.lock().unwrap(): blocks while another thread holds the guard; on
\* a poisoned mutex lock() returns Err and the unwrap panics (the guard in
\* the error is dropped, the thread unwinds and drops its Arc clone).
Lock(w) ==
    /\ wpc[w] = "lock"
    /\ lockHolders = {}
    /\ IF poisoned
          THEN /\ wpc' = [wpc EXCEPT ![w] = "panicked"]
               /\ ArcDrop(w, queue)
               /\ UNCHANGED lockHolders
          ELSE /\ wpc' = [wpc EXCEPT ![w] = "recv"]
               /\ lockHolders' = lockHolders \cup {w}
               /\ UNCHANGED <<rxRefs, rxDropped, queue, discarded>>
    /\ UNCHANGED <<pc, size, chan, sender, poisoned, workers, joinIdx,
                   message, submitted, dequeued, completed, failedJobs,
                   calls, closeSnap>>

\* recv() that hands out the newest message instead of the oldest.
Recv_Lifo(w) ==
    /\ wpc[w] = "recv"
    /\ queue # <<>>
    /\ message' = [message EXCEPT ![w] = OkMessage(queue[Len(queue)])]
    /\ queue' = SubSeq(queue, 1, Len(queue) - 1)
    /\ dequeued' = Append(dequeued, queue[Len(queue)].id)
    /\ wpc' = [wpc EXCEPT ![w] = "release"]
    /\ UNCHANGED <<pc, size, chan, sender, rxRefs, rxDropped, lockHolders,
                   poisoned, workers, joinIdx, submitted, completed,
                   failedJobs, calls, closeSnap, discarded>>

\* recv() that reports disconnection as soon as the Sender is gone, even
\* with messages still buffered.
Recv_EagerErr(w) ==
    /\ wpc[w] = "recv"
    /\ queue # <<>> \/ SendersGone
    /\ IF ~SendersGone
          THEN /\ message' = [message EXCEPT ![w] = OkMessage(Head(queue))]
               /\ queue' = Tail(queue)
               /\ dequeued' = Append(dequeued, Head(queue).id)
          ELSE /\ message' = [message EXCEPT ![w] = ErrMessage]
               /\ UNCHANGED <<queue, dequeued>>
    /\ wpc' = [wpc EXCEPT ![w] = "release"]
    /\ UNCHANGED <<pc, size, chan, sender, rxRefs, rxDropped, lockHolders,
                   poisoned, workers, joinIdx, submitted, completed,
                   failedJobs, calls, closeSnap, discarded>>

\* recv() that never reports disconnection: it waits for a message forever.
Recv_NoErr(w) ==
    /\ wpc[w] = "recv"
    /\ queue # <<>>
    /\ message' = [message EXCEPT ![w] = OkMessage(Head(queue))]
    /\ queue' = Tail(queue)
    /\ dequeued' = Append(dequeued, Head(queue).id)
    /\ wpc' = [wpc EXCEPT ![w] = "release"]
    /\ UNCHANGED <<pc, size, chan, sender, rxRefs, rxDropped, lockHolders,
                   poisoned, workers, joinIdx, submitted, completed,
                   failedJobs, calls, closeSnap, discarded>>

\* .recv() on the locked Receiver: blocks until a message is buffered or
\* the channel is disconnected and empty; returns the oldest message (Ok)
\* or the disconnection (Err).
Recv(w) ==
    /\ wpc[w] = "recv"
    /\ queue # <<>> \/ SendersGone
    /\ IF queue # <<>>
          THEN /\ message' = [message EXCEPT ![w] = OkMessage(Head(queue))]
               /\ queue' = Tail(queue)
               /\ dequeued' = Append(dequeued, Head(queue).id)
          ELSE /\ message' = [message EXCEPT ![w] = ErrMessage]
               /\ UNCHANGED <<queue, dequeued>>
    /\ wpc' = [wpc EXCEPT ![w] = "release"]
    /\ UNCHANGED <<pc, size, chan, sender, rxRefs, rxDropped, lockHolders,
                   poisoned, workers, joinIdx, submitted, completed,
                   failedJobs, calls, closeSnap, discarded>>

\* A guard that lives to the end of the loop body instead of the statement
\* (as with `while let Ok(job) = receiver.lock().unwrap().recv()`).
Release_GuardKept(w) ==
    /\ wpc[w] = "release"
    /\ wpc' = [wpc EXCEPT ![w] = "match"]
    /\ UNCHANGED <<pc, size, chan, sender, queue, rxRefs, rxDropped,
                   lockHolders, poisoned, workers, joinIdx, message,
                   submitted, dequeued, completed, failedJobs, calls,
                   closeSnap, discarded>>

\* The end of the `let message = ...;` statement: the temporary MutexGuard
\* is dropped, which unlocks the mutex.
Release(w) ==
    /\ wpc[w] = "release"
    /\ lockHolders' = lockHolders \ {w}
    /\ wpc' = [wpc EXCEPT ![w] = "match"]
    /\ UNCHANGED <<pc, size, chan, sender, queue, rxRefs, rxDropped,
                   poisoned, workers, joinIdx, message, submitted, dequeued,
                   completed, failedJobs, calls, closeSnap, discarded>>

\* match message: Ok(job) starts the job, Err(_) breaks out of the loop, the
\* closure returns and drops its Arc clone.
Match(w) ==
    /\ wpc[w] = "match"
    /\ IF message[w].tag = "Ok"
          THEN /\ wpc' = [wpc EXCEPT ![w] = "exec"]
               /\ UNCHANGED <<rxRefs, rxDropped, queue, discarded>>
          ELSE /\ wpc' = [wpc EXCEPT ![w] = "terminated"]
               /\ ArcDrop(w, queue)
    /\ UNCHANGED <<pc, size, chan, sender, lockHolders, poisoned, workers,
                   joinIdx, message, submitted, dequeued, completed,
                   failedJobs, calls, closeSnap>>

\* A closure without the `loop`: the thread ends after its first job.
JobReturn_NoLoop(w) ==
    /\ wpc[w] = "exec"
    /\ ~message[w].fails
    /\ completed' = Append(completed, message[w].id)
    /\ message' = [message EXCEPT ![w] = NoMessage]
    /\ wpc' = [wpc EXCEPT ![w] = "terminated"]
    /\ ArcDrop(w, queue)
    /\ UNCHANGED <<pc, size, chan, sender, lockHolders, poisoned, workers,
                   joinIdx, submitted, dequeued, failedJobs, calls,
                   closeSnap>>

\* job() runs to completion and returns: its side effect is recorded, the
\* message goes out of scope and the loop starts over.
JobReturn(w) ==
    /\ wpc[w] = "exec"
    /\ ~message[w].fails
    /\ completed' = Append(completed, message[w].id)
    /\ message' = [message EXCEPT ![w] = NoMessage]
    /\ wpc' = [wpc EXCEPT ![w] = "lock"]
    /\ UNCHANGED <<pc, size, chan, sender, queue, rxRefs, rxDropped,
                   lockHolders, poisoned, workers, joinIdx, submitted,
                   dequeued, failedJobs, calls, closeSnap, discarded>>

\* job() panics: the thread unwinds; a guard still held would be dropped
\* and poison the mutex; the closure's Arc clone is dropped.
JobPanic(w) ==
    /\ wpc[w] = "exec"
    /\ message[w].fails
    /\ failedJobs' = failedJobs \cup {message[w].id}
    /\ message' = [message EXCEPT ![w] = NoMessage]
    /\ poisoned' = (poisoned \/ w \in lockHolders)
    /\ lockHolders' = lockHolders \ {w}
    /\ wpc' = [wpc EXCEPT ![w] = "panicked"]
    /\ ArcDrop(w, queue)
    /\ UNCHANGED <<pc, size, chan, sender, workers, joinIdx, submitted,
                   dequeued, completed, calls, closeSnap>>

-----------------------------------------------------------------------------
Next ==
    \/ \E s \in 0 .. MaxSize : NewAssert(s)
    \/ NewChannel
    \/ NewSpawn
    \/ \E f \in BOOLEAN : Execute(f)
    \/ DropSender
    \/ DropTake
    \/ DropJoin
    \/ \E w \in WorkerIds : Lock(w)
    \/ \E w \in WorkerIds : Recv(w)
    \/ \E w \in WorkerIds : Release(w)
    \/ \E w \in WorkerIds : Match(w)
    \/ \E w \in WorkerIds : JobReturn(w)
    \/ \E w \in WorkerIds : JobPanic(w)

Spec == Init /\ [][Next]_vars

\* The scheduler runs every thread that can take a step: each worker thread,
\* and the owner thread while it is inside new or inside drop. Calling
\* execute and dropping the pool are the caller's choice and are not forced.
Fairness ==
    /\ WF_vars(NewChannel)
    /\ WF_vars(NewSpawn)
    /\ WF_vars(DropTake)
    /\ WF_vars(DropJoin)
    /\ \A w \in WorkerIds :
          /\ WF_vars(Lock(w))
          /\ WF_vars(Recv(w))
          /\ WF_vars(Release(w))
          /\ WF_vars(Match(w))
          /\ WF_vars(JobReturn(w))
          /\ WF_vars(JobPanic(w))

FairSpec == Spec /\ Fairness

-----------------------------------------------------------------------------
\* Vocabulary of the properties

Spawned == {workers[i].id : i \in 1 .. Len(workers)}

Running(w) == wpc[w] \in {"lock", "recv", "release", "match", "exec"}

\* Some job passed to execute so far is one that panics.
FailingSubmitted == \E i \in 1 .. Len(calls) : calls[i].fails

\* None of the first j jobs passed to execute panics.
NoFailUpTo(j) == \A i \in 1 .. Len(calls) : i <= j => ~calls[i].fails

Occurrences(seq, x) == Cardinality({i \in 1 .. Len(seq) : seq[i] = x})

InFlight == {w \in WorkerIds : message[w].tag = "Ok"}

DropBegun == pc \in {"drop_loop", "drop_join"}

-----------------------------------------------------------------------------
\* C1: when no submitted job fails, in the state where drop has returned
\* every one of the M submitted jobs has recorded its side effect exactly
\* once: the completion log has M entries and holds each job id once.
C1_ExactlyOnceAfterDrop ==
    (pc = "done" /\ ~FailingSubmitted) =>
        /\ Len(completed) = submitted
        /\ \A j \in 1 .. submitted : Occurrences(completed, j) = 1

\* Drop of a pool of several workers has returned after MaxJobs non-failing
\* jobs.
C1_Witness ==
    /\ pc = "done"
    /\ ~FailingSubmitted
    /\ submitted = MaxJobs
    /\ size >= 2

\* C2: in the state where drop has returned the queue is empty, no job is
\* in flight, nobody holds the lock and every worker thread has terminated.
C2_DropReturnsAfterAllWork ==
    pc = "done" =>
        /\ queue = <<>>
        /\ InFlight = {}
        /\ lockHolders = {}
        /\ Len(workers) = size
        /\ \A w \in Spawned : wpc[w] = "terminated"
        /\ Len(completed) = submitted

\* Drop has returned although jobs were both queued and executing when the
\* Sender was dropped.
C2_Witness == pc = "done" /\ closeSnap

\* C3: with no failing job, once drop has begun (the Sender is dropped) it
\* eventually returns under fair scheduling.
C3_DropTerminates == (DropBegun /\ ~FailingSubmitted) ~> (pc = "done")

\* Drop of the largest pool has returned from a close that found jobs
\* queued and executing, none of them failing.
C3_Witness ==
    /\ pc = "done"
    /\ size = MaxSize
    /\ submitted = MaxJobs
    /\ closeSnap
    /\ ~FailingSubmitted

\* C4: new(size) with size > 0 does not panic, and when it returns the pool
\* has exactly size workers with ids 0..size-1 in order, every thread handle
\* present, every worker thread alive and holding a clone of the one
\* receiver, and the sender present.
C4_NewBuildsSizeWorkers ==
    /\ pc = "new_panicked" => size = 0
    /\ pc = "active" =>
          /\ size > 0
          /\ Len(workers) = size
          /\ \A i \in 1 .. Len(workers) :
                workers[i].id = i - 1 /\ workers[i].thread = "Some"
          /\ sender = "Some"
          /\ chan
    /\ (pc = "active" /\ submitted = 0) =>
          /\ \A w \in Spawned : Running(w)
          /\ rxRefs = Spawned
          /\ ~rxDropped

\* new(MaxSize) has returned and nothing has been submitted yet.
C4_Witness == pc = "active" /\ submitted = 0 /\ size = MaxSize

\* C5: new(0) panics in the assertion, before the channel exists and before
\* any worker is created or any thread spawned.
C5_NewZeroPanics ==
    (pc # "start" /\ size = 0) =>
        /\ pc = "new_panicked"
        /\ ~chan
        /\ sender = "None"
        /\ workers = <<>>
        /\ rxRefs = {}
        /\ \A w \in WorkerIds : wpc[w] = "unspawned"

\* new(0) has been called.
C5_Witness == pc = "new_panicked" /\ size = 0

\* C6: every call of execute on an Active pool appends the job to the tail
\* of the queue and returns normally, whatever the workers' states.
C6_ExecuteAlwaysSucceeds ==
    [][(pc = "active" /\ submitted' = submitted + 1) =>
          /\ pc' = "active"
          /\ queue' = Append(queue, calls'[submitted + 1])]_vars

\* C7: at most one thread holds the guard of the receiver mutex.
C7_OneLockHolder == Cardinality(lockHolders) <= 1

\* One worker holds the lock while another is waiting to acquire it.
C7_Witness ==
    \E w, v \in WorkerIds :
        w # v /\ w \in lockHolders /\ wpc[v] = "lock"

\* C8: the lock is held only across the receive: a holder is blocked in or
\* returning from recv, and no worker that is matching on its message or
\* executing a job holds the lock.
C8_LockOnlyAcrossRecv ==
    \A w \in WorkerIds :
        /\ w \in lockHolders => wpc[w] \in {"recv", "release"}
        /\ wpc[w] \in {"match", "exec"} => w \notin lockHolders

\* One worker is executing a job while another holds the lock.
C8_Witness ==
    \E w, v \in WorkerIds :
        w # v /\ wpc[w] = "exec" /\ v \in lockHolders

\* C9: jobs leave the queue in submission order: the i-th job handed out by
\* recv is the i-th job submitted, whichever workers receive them.
C9_FifoDequeue ==
    /\ \A i \in 1 .. Len(dequeued) : dequeued[i] = i
    /\ \A i \in 1 .. Len(queue) : queue[i].id = Len(dequeued) + i

\* MaxJobs jobs have been dequeued and two workers hold one each.
C9_Witness ==
    /\ Len(dequeued) = MaxJobs
    /\ Cardinality(InFlight) >= 2

\* C10: under fair scheduling every submitted job with no failing job at or
\* before it in submission order is eventually dequeued, whether or not the
\* pool is ever dropped, and no job is ever dequeued twice. Jobs once
\* dequeued stay dequeued and at most MaxJobs are submitted, so "each such
\* job is eventually dequeued" is "again and again, all of them are".
C10_EventuallyDeliveredOnce ==
    /\ []<>(\A j \in 1 .. MaxJobs :
              (submitted >= j /\ NoFailUpTo(j)) => Occurrences(dequeued, j) = 1)
    /\ [](\A j \in 1 .. MaxJobs : Occurrences(dequeued, j) <= 1)

\* All MaxJobs jobs have been delivered while the pool is still Active.
C10_Witness ==
    /\ pc = "active"
    /\ Len(dequeued) = MaxJobs
    /\ ~FailingSubmitted

\* C11: with a pool of size 1 jobs run one at a time and in submission
\* order: at most one job is in flight, a job is executing only when every
\* job submitted before it has completed, and the completion log lists the
\* job ids in submission order.
C11_SizeOneSerialFifo ==
    size = 1 =>
        /\ Cardinality(InFlight) <= 1
        /\ \A i \in 1 .. Len(completed) : completed[i] = i
        /\ \A w \in WorkerIds :
              wpc[w] = "exec" => Len(completed) = message[w].id - 1

\* The only worker executes the second job, after the first has completed,
\* while a third waits in the queue.
C11_Witness ==
    /\ size = 1
    /\ wpc[0] = "exec"
    /\ message[0].id = 2
    /\ completed = <<1>>
    /\ queue # <<>>

\* C12: an executing worker never keeps another from dequeuing: a worker
\* waiting for the lock can take it unless the holder is itself inside the
\* receive, and the holder can take a job as soon as one is queued.
C12_ExecutionNeverBlocksDequeue ==
    \A v \in WorkerIds :
        /\ wpc[v] = "lock" =>
              \/ ENABLED Lock(v)
              \/ \E h \in lockHolders : wpc[h] \in {"recv", "release"}
        /\ (wpc[v] = "recv" /\ queue # <<>>) => ENABLED Recv(v)

\* A pool of size 2 with two submitted jobs, both executing at once.
C12_Witness ==
    /\ size = 2
    /\ submitted = 2
    /\ \A w \in Spawned : wpc[w] = "exec"
    /\ Cardinality({message[w].id : w \in Spawned}) = 2

\* The channel exists and its only Sender has been dropped.
Closed == chan /\ SendersGone

\* C13 as stated: once the Sender is dropped it stays dropped and the queue
\* never grows; every job queued then is still handed to a worker, that is,
\* a job leaves the queue only by recv giving it to a worker; and a worker
\* holds the closed signal only when the queue is closed and empty.
C13_CloseKeepsQueuedJobs ==
    /\ [][Closed => (Closed' /\ Len(queue') <= Len(queue))]_vars
    /\ [][(Closed /\ queue' # queue) =>
             /\ queue' = Tail(queue)
             /\ dequeued' = Append(dequeued, Head(queue).id)
             /\ \E w \in WorkerIds :
                   message[w].tag = "None" /\ message'[w] = OkMessage(Head(queue))]_vars
    /\ [](\A w \in WorkerIds :
             message[w].tag = "Err" => (Closed /\ queue = <<>>))

\* C13 amended: as above, except that a job also leaves the queue when the
\* panic of a job ends the last worker thread, which drops the Receiver and
\* the jobs still buffered in it, unrun.
C13_CloseKeepsJobsWhileWorkersLive ==
    /\ [][Closed => (Closed' /\ Len(queue') <= Len(queue))]_vars
    /\ [][(Closed /\ queue' # queue) =>
             \/ /\ queue' = Tail(queue)
                /\ dequeued' = Append(dequeued, Head(queue).id)
                /\ \E w \in WorkerIds :
                      message[w].tag = "None" /\ message'[w] = OkMessage(Head(queue))
             \/ /\ queue' = <<>>
                /\ ~rxDropped /\ rxDropped'
                /\ failedJobs' # failedJobs
                /\ discarded' = discarded \cup {queue[i].id : i \in 1 .. Len(queue)}
                /\ \A w \in Spawned : wpc'[w] \in {"terminated", "panicked"}]_vars
    /\ [](\A w \in WorkerIds :
             message[w].tag = "Err" => (Closed /\ queue = <<>>))

\* A worker holds the closed signal after a close that found jobs queued,
\* all of which have been handed out since.
C13_Witness ==
    /\ Closed
    /\ closeSnap
    /\ queue = <<>>
    /\ Len(dequeued) = submitted
    /\ \E w \in WorkerIds : message[w].tag = "Err"

\* C14: during drop the handles are taken and joined in ascending worker
\* order, one at a time: a handle is empty only once drop has begun, only
\* for workers up to the loop position, and only when every earlier worker's
\* handle is empty and its thread was joined after it terminated; the loop
\* position moves forward one worker at a time; an empty handle never
\* becomes present again.
C14_JoinInIdOrderOnce ==
    /\ [](\A i \in 1 .. Len(workers) :
             workers[i].thread = "None" =>
                /\ pc \in {"drop_loop", "drop_join", "drop_panicked", "done"}
                /\ i <= joinIdx + 1
                /\ i = joinIdx + 1 => pc \in {"drop_join", "drop_panicked"}
                /\ \A k \in 1 .. (i - 1) :
                      /\ workers[k].thread = "None"
                      /\ wpc[workers[k].id] = "terminated")
    /\ [](\A i \in 1 .. Len(workers) : workers[i].id = i - 1)
    /\ [][joinIdx' = joinIdx \/ joinIdx' = joinIdx + 1]_vars
    /\ [][\A i \in 1 .. Len(workers) :
             workers[i].thread = "None" => workers'[i].thread = "None"]_vars

\* The second worker's handle has been taken and is being joined, after the
\* join of the first has returned.
C14_Witness ==
    /\ pc = "drop_join"
    /\ joinIdx = 1
    /\ workers[1].thread = "None"
    /\ workers[2].thread = "None"

\* C15: the Sender is dropped before any handle is taken: whenever some
\* worker's handle is empty, or drop has got past its first statement, the
\* sender is empty; the sender goes from present to empty only in the first
\* step of drop, with every handle still present, and once empty stays so.
C15_SenderClosedBeforeJoins ==
    /\ []((\E i \in 1 .. Len(workers) : workers[i].thread = "None")
             => sender = "None")
    /\ [](pc \in {"drop_loop", "drop_join", "drop_panicked", "done"}
             => sender = "None")
    /\ [][(sender = "Some" /\ sender' = "None") =>
             /\ pc = "active" /\ pc' = "drop_loop"
             /\ \A i \in 1 .. Len(workers) : workers'[i].thread = "Some"]_vars
    /\ [][Closed => sender' = "None"]_vars

\* The first worker's handle has been taken and drop waits in join for its
\* thread, which is still running.
C15_Witness ==
    /\ pc = "drop_join"
    /\ joinIdx = 0
    /\ workers[1].thread = "None"
    /\ Running(workers[1].id)

\* The worker's thread has ended, by leaving the loop or by unwinding.
Ended(w) == wpc[w] \in {"terminated", "panicked"}

\* C16 as stated: a worker's thread ends only on receiving the closed and
\* empty signal, so while the pool is Active every worker is Running, and a
\* worker whose thread has ended never runs again.
C16_EndsOnlyByClosure ==
    /\ [](pc = "active" => \A w \in Spawned : Running(w))
    /\ [][\A w \in WorkerIds :
             (Running(w) /\ wpc'[w] # wpc[w] /\ wpc'[w] \in {"terminated", "panicked"})
                => (message[w].tag = "Err" /\ Closed /\ queue = <<>>)]_vars
    /\ [][\A w \in WorkerIds : Ended(w) => wpc'[w] = wpc[w]]_vars

\* C16 amended: a worker's thread ends in two ways only, by leaving the loop
\* on the closed and empty signal or by the panic of the job it is
\* executing; so while the pool is Active no worker has left its loop and a
\* worker has ended only by such a panic; a worker whose thread has ended
\* never runs again.
C16_EndsByClosureOrJobPanic ==
    /\ [](pc = "active" =>
             \A w \in Spawned : Running(w) \/ wpc[w] = "panicked")
    /\ [](Cardinality({w \in WorkerIds : wpc[w] = "panicked"})
             = Cardinality(failedJobs))
    /\ [][\A w \in WorkerIds :
             (Running(w) /\ wpc'[w] # wpc[w] /\ wpc'[w] \in {"terminated", "panicked"})
                => \/ /\ wpc[w] = "match"
                      /\ message[w].tag = "Err"
                      /\ Closed /\ queue = <<>>
                      /\ wpc'[w] = "terminated"
                   \/ /\ wpc[w] = "exec"
                      /\ message[w].fails
                      /\ failedJobs' = failedJobs \cup {message[w].id}
                      /\ wpc'[w] = "panicked"]_vars
    /\ [][\A w \in WorkerIds : Ended(w) => wpc'[w] = wpc[w]]_vars

\* One worker has left its loop on the closed signal and another was ended
\* by the panic of its job.
C16_Witness ==
    \E w, v \in WorkerIds : wpc[w] = "terminated" /\ wpc[v] = "panicked"

RunningCount == Cardinality({w \in WorkerIds : Running(w)})

\* C17: the panic of a job ends the thread of the worker executing it and
\* nothing else: in that step no other worker changes position, the lock
\* and its poison flag are untouched and the count of running workers drops
\* by one; workers are created during new only and after it the count of
\* running workers never rises; there is one ended-by-panic worker per
\* failed job and the mutex is never poisoned, so the others go on: under
\* fair scheduling, while some worker is running the queue is emptied again
\* and again.
C17_FailureEndsOnlyItsWorker ==
    /\ [][failedJobs' # failedJobs =>
             \E w \in WorkerIds :
                /\ wpc[w] = "exec" /\ wpc'[w] = "panicked"
                /\ failedJobs' = failedJobs \cup {message[w].id}
                /\ message[w].id \notin failedJobs
                /\ \A v \in WorkerIds \ {w} :
                      wpc'[v] = wpc[v] /\ message'[v] = message[v]
                /\ lockHolders' = lockHolders
                /\ workers' = workers
                /\ RunningCount' = RunningCount - 1]_vars
    /\ [][pc # "new_spawn" =>
             /\ Len(workers') = Len(workers)
             /\ \A w \in WorkerIds :
                   wpc[w] = "unspawned" => wpc'[w] = "unspawned"
             /\ RunningCount' <= RunningCount]_vars
    /\ [](Cardinality({w \in WorkerIds : ~Running(w) /\ wpc[w] # "unspawned"
                                          /\ wpc[w] # "terminated"})
             = Cardinality(failedJobs))
    /\ [](~poisoned)
    /\ []<>((\E w \in WorkerIds : Running(w)) => queue = <<>>)

\* One worker was ended by a panicking job and another is executing a job
\* that was submitted after the one that panicked.
C17_Witness ==
    \E w, v \in WorkerIds :
        /\ wpc[w] = "panicked"
        /\ wpc[v] = "exec"
        /\ \E j \in failedJobs : message[v].id > j

\* C18: a job failure never surfaces in the owner thread. For the shutdown
\* the claim says: after a job has panicked, the drop of the pool, the join
\* of the failed worker included, goes as it does without the failure, so
\* it never ends in a panic. (For execute the claim says what C6 says.)
C18_FailureNeverSurfaces == failedJobs # {} => pc # "drop_panicked"

\* The number of jobs execute has accepted: the call that panicked did not
\* hand its job over.
Accepted == IF pc = "execute_panicked" THEN submitted - 1 ELSE submitted

QueuedCount(j) == Cardinality({i \in 1 .. Len(queue) : queue[i].id = j})

HeldCount(j) == Cardinality({w \in InFlight : message[w].id = j})

FinishedCount(j) ==
    Occurrences(completed, j) + (IF j \in failedJobs THEN 1 ELSE 0)

\* C19 as stated: every accepted job is in exactly one place, queued, held
\* by one worker, or finished (completed or failed), and the accepted jobs
\* number queued + in flight + finished.
C19_JobConservation ==
    /\ \A j \in 1 .. Accepted :
          QueuedCount(j) + HeldCount(j) + FinishedCount(j) = 1
    /\ Accepted = Len(queue) + Cardinality(InFlight) + Len(completed)
                     + Cardinality(failedJobs)

\* C19 amended: there is a fourth place, the jobs dropped unrun with the
\* Receiver, which holds jobs only after a job failure has ended the last
\* worker thread; every accepted job is in exactly one of the four places
\* and the accepted jobs number queued + in flight + finished + dropped.
C19_JobConservationWithDropped ==
    /\ \A j \in 1 .. Accepted :
          QueuedCount(j) + HeldCount(j) + FinishedCount(j)
             + (IF j \in discarded THEN 1 ELSE 0) = 1
    /\ Accepted = Len(queue) + Cardinality(InFlight) + Len(completed)
                     + Cardinality(failedJobs) + Cardinality(discarded)
    /\ discarded # {} =>
          /\ rxDropped
          /\ failedJobs # {}
          /\ \A w \in Spawned : Ended(w)

\* One job has completed, a later one has panicked and ended the last
\* worker, and a third was dropped with the Receiver.
C19_Witness ==
    /\ completed # <<>>
    /\ failedJobs # {}
    /\ discarded # {}

\* C20: the lock is never left behind by a worker whose thread has ended:
\* every holder is a running worker, the mutex is never poisoned, no worker
\* has ended by a panic other than the panic of a job (so lock().unwrap()
\* has never failed), and a worker waiting for the lock can take it unless a
\* running worker holds it.
C20_LockNeverLeftByEndedWorker ==
    /\ ~poisoned
    /\ \A h \in lockHolders : Running(h)
    /\ Cardinality({w \in WorkerIds : wpc[w] = "panicked"})
          = Cardinality(failedJobs)
    /\ \A v \in WorkerIds :
          wpc[v] = "lock" =>
             \/ ENABLED (Lock(v) /\ wpc'[v] = "recv")
             \/ \E h \in lockHolders : Running(h)

\* A worker holds the lock after another worker's thread was ended by the
\* panic of its job.
C20_Witness ==
    \E w, v \in WorkerIds : wpc[w] = "panicked" /\ v \in lockHolders

====
